---- MODULE Spec2Model ----
(***************************************************************************)
(* Model of the in-memory incident store (app/data_store.py) and of the    *)
(* HTTP routes that drive it (app/routes.py).                              *)
(*                                                                         *)
(* Time is counted in minutes.  The module-load instant is StartTime; the  *)
(* seeded incidents carry timestamps that lie 45 minutes to 6 hours before *)
(* it.  The wall clock is the variable clock; it never runs backwards.     *)
(***************************************************************************)
EXTENDS Integers, Sequences, FiniteSets, TLC

\* ---------------------------------------------------------------- bounds
\* store calls and HTTP requests explored in one behaviour
MaxCalls == 3
\* minutes the clock may advance after module load
MaxTicks == 1
\* mutate_sensor_payloads calls explored in one behaviour of the sensor feed
MaxSensorTicks == 8

\* ------------------------------------------------------------- constants
\* Python's None, for the nullable timestamps (timestamps are naturals)
None == -1
\* the instant _now() returns while data_store is imported
StartTime == 360
\* first value of itertools.count(1001)
FirstId == 1001

SEVERITIES == <<"low", "medium", "high", "critical">>
STATUSES == <<"open", "acknowledged", "resolved">>
CATEGORIES == <<"Traffic", "Cybersecurity", "Public Safety", "Utilities", "Environmental">>

Range(seq) == {seq[i] : i \in DOMAIN seq}

\* root_cause is a string or null; null is written NoRootCause
NoRootCause == "None"

\* the three seeded incidents, in list order (ids 1000, 999, 998)
SeedIncidents ==
  << [id |-> 1000, title |-> "Traffic congestion at Central Station",
      category |-> "Traffic", severity |-> "high", status |-> "open",
      detected_at |-> StartTime - 45, acknowledged_at |-> None, resolved_at |-> None,
      location |-> "Central Station",
      description |-> "Multiple sensors detect congestion exceeding 85% capacity.",
      impact |-> "Delays to public transport lines 2, 3, and 5.",
      root_cause |-> NoRootCause],
     [id |-> 999, title |-> "Unauthorized login attempts detected",
      category |-> "Cybersecurity", severity |-> "critical", status |-> "acknowledged",
      detected_at |-> StartTime - 135, acknowledged_at |-> StartTime - 120,
      resolved_at |-> None,
      location |-> "Datacenter West",
      description |-> "Spike of failed logins against admin APIs.",
      impact |-> "Potential service disruption for citizen portal.",
      root_cause |-> "Credential stuffing campaign"],
     [id |-> 998, title |-> "IoT air quality sensor offline",
      category |-> "Environmental", severity |-> "medium", status |-> "resolved",
      detected_at |-> StartTime - 360, acknowledged_at |-> StartTime - 345,
      resolved_at |-> StartTime - 310,
      location |-> "Canal District",
      description |-> "No data received for over 10 minutes.",
      impact |-> "Air quality predictions may be delayed.",
      root_cause |-> "Battery replacement required"] >>

\* the three seeded sensors, in list order.  Payload numbers are fixed-point:
\* avg_speed_kmh in tenths, chlorine_ppm, ph and anomaly_score in hundredths
SeedSensors ==
  << [id |-> "traffic-001", type |-> "Traffic", location |-> "Central Station",
      last_update |-> StartTime - 2, status |-> "warning",
      payload |-> [vehicle_count |-> 982, avg_speed_kmh |-> 80]],
     [id |-> "iot-443", type |-> "Utilities", location |-> "Water Treatment Plant",
      last_update |-> StartTime - 6, status |-> "healthy",
      payload |-> [chlorine_ppm |-> 110, ph |-> 720]],
     [id |-> "cctv-901", type |-> "Public Safety", location |-> "Museum Quarter",
      last_update |-> StartTime - 1, status |-> "alert",
      payload |-> [anomaly_score |-> 81]] >>

VARIABLES
  incidents,             \* _incidents: the canonical list, in insertion order
  incident_id_sequence,  \* next value of _incident_id_sequence
  clock,                 \* what _now() returns
  call,                  \* the last operation invoked, with its arguments
  result,                \* what that operation returned or raised
  calls,                 \* number of calls and requests made so far
  session,               \* the client's Flask session: a mapping
  sensors,               \* _sensors: the canonical list
  aliases,               \* the store objects the value last returned to an
                         \* in-process caller shares with the store
  updating               \* the frame of an update_incident_status call that a
                         \* request thread is in the middle of, NoFrame if none

vars == <<incidents, incident_id_sequence, clock, call, result, calls, session,
          sensors, aliases, updating>>

\* ------------------------------------------------------------ data_store
\* returning the object itself instead of a copy
same_object(refs) == refs

\* deepcopy(obj): the store objects (of refs, the ones obj is made of) that
\* the copy shares with the store: none
deepcopy(refs) == {}

IncidentRef(i) == <<"incident", i>>
SensorRef(i) == <<"sensor", i>>

\* what a caller's writes to the value it was handed do to a store object
\* that the value shares with the store: top-level fields and the nested
\* payload are overwritten
WrittenIncident(incident) == [incident EXCEPT !.status = "overwritten", !.id = 0]
WrittenSensor(sensor) ==
  [sensor EXCEPT !.status = "overwritten",
                 !.payload = [key \in DOMAIN sensor.payload |-> 0]]

\* dict.get(key, default) on a mapping
Get(data, key, default) == IF key \in DOMAIN data THEN data[key] ELSE default

\* position of the first incident with this id in the list, 0 when absent
\* (the for loop of get_incident / update_incident_status)
FirstIndex(incs, incident_id) ==
  IF \E i \in DOMAIN incs : incs[i].id = incident_id
  THEN CHOOSE i \in DOMAIN incs :
         /\ incs[i].id = incident_id
         /\ \A j \in DOMAIN incs : incs[j].id = incident_id => i <= j
  ELSE 0

\* sorted(..., key=detected_at, reverse=True): a stable sort, so incidents
\* with equal detected_at keep their list order
RECURSIVE InsertDescending(_, _)
InsertDescending(sorted, item) ==
  IF sorted = <<>> THEN <<item>>
  ELSE IF Head(sorted).detected_at >= item.detected_at
       THEN <<Head(sorted)>> \o InsertDescending(Tail(sorted), item)
       ELSE <<item>> \o sorted

RECURSIVE SortedDescending(_)
SortedDescending(incs) ==
  IF incs = <<>> THEN <<>>
  ELSE InsertDescending(SortedDescending(SubSeq(incs, 1, Len(incs) - 1)), incs[Len(incs)])

\* get_incidents without the sort: the list in insertion order
get_incidents_unsorted(incs) == incs

get_incidents(incs) == SortedDescending(incs)

\* get_incident falling back to the head of the list for an id nobody has
get_incident_fallback(incs, incident_id) ==
  IF FirstIndex(incs, incident_id) = 0
  THEN [kind |-> "incident", incident |-> incs[1]]
  ELSE [kind |-> "incident", incident |-> incs[FirstIndex(incs, incident_id)]]

\* get_incident(incident_id): the first incident with that id, or None
get_incident(incs, incident_id) ==
  IF FirstIndex(incs, incident_id) = 0 THEN [kind |-> "None"]
  ELSE [kind |-> "incident", incident |-> incs[FirstIndex(incs, incident_id)]]

\* add_incident copying the caller's status instead of setting "open"
NewIncidentKeepingStatus(data, id, now, category_choice, severity_choice) ==
  [id |-> id,
   title |-> Get(data, "title", "Unclassified incident"),
   category |-> Get(data, "category", category_choice),
   severity |-> Get(data, "severity", severity_choice),
   status |-> Get(data, "status", "open"),
   detected_at |-> now,
   acknowledged_at |-> None,
   resolved_at |-> None,
   location |-> Get(data, "location", "Unknown"),
   description |-> Get(data, "description", "Generated from live sensor input."),
   impact |-> Get(data, "impact", "Impact under investigation."),
   root_cause |-> NoRootCause]

\* the incident add_incident builds; category_choice and severity_choice are
\* the two _rng.choice draws
NewIncident(data, id, now, category_choice, severity_choice) ==
  [id |-> id,
   title |-> Get(data, "title", "Unclassified incident"),
   category |-> Get(data, "category", category_choice),
   severity |-> Get(data, "severity", severity_choice),
   status |-> "open",
   detected_at |-> now,
   acknowledged_at |-> None,
   resolved_at |-> None,
   location |-> Get(data, "location", "Unknown"),
   description |-> Get(data, "description", "Generated from live sensor input."),
   impact |-> Get(data, "impact", "Impact under investigation."),
   root_cause |-> NoRootCause]

\* a sequence that hands out the same value again
StuckSequenceValue(sequence) == sequence

\* next(_incident_id_sequence) hands out the current value; this is the value
\* the sequence holds afterwards
NextSequenceValue(sequence) == sequence + 1

\* update_incident_status without the validation
AnyStatusValid(status) == TRUE

\* the guard of update_incident_status: status in STATUSES
ValidStatus(status) == status \in Range(STATUSES)

\* update_incident_status leaving acknowledged_at alone when it resolves
UpdatedIncidentNoAckOnResolve(incident, status, now) ==
  LET s1 == [incident EXCEPT !.status = status]
      s2 == IF status = "acknowledged" /\ s1.acknowledged_at = None
            THEN [s1 EXCEPT !.acknowledged_at = now] ELSE s1
  IN IF status = "resolved" THEN [s2 EXCEPT !.resolved_at = now] ELSE s2

\* update_incident_status stamping acknowledged_at on every acknowledgement
UpdatedIncidentRestampingAck(incident, status, now) ==
  LET s1 == [incident EXCEPT !.status = status]
      s2 == IF status = "acknowledged"
            THEN [s1 EXCEPT !.acknowledged_at = now] ELSE s1
  IN IF status = "resolved"
     THEN [(IF s2.acknowledged_at = None
            THEN [s2 EXCEPT !.acknowledged_at = now] ELSE s2)
           EXCEPT !.resolved_at = now]
     ELSE s2

\* an update that writes the status and no timestamp
UpdatedIncidentStatusOnly(incident, status, now) ==
  [incident EXCEPT !.status = status]

\* an update that also stamps the detection time anew
UpdatedIncidentRestampingDetection(incident, status, now) ==
  [incident EXCEPT !.status = status, !.detected_at = now,
                   !.acknowledged_at = IF status \in {"acknowledged", "resolved"}
                                         /\ incident.acknowledged_at = None
                                       THEN now ELSE incident.acknowledged_at,
                   !.resolved_at = IF status = "resolved" THEN now
                                   ELSE incident.resolved_at]

\* the matching incident after the body of the loop of update_incident_status
\* ran on it: the status is assigned unconditionally, then the timestamps
UpdatedIncident(incident, status, now) ==
  LET s1 == [incident EXCEPT !.status = status]
      s2 == IF status = "acknowledged" /\ s1.acknowledged_at = None
            THEN [s1 EXCEPT !.acknowledged_at = now] ELSE s1
      s3 == IF status = "resolved"
            THEN [(IF s2.acknowledged_at = None
                   THEN [s2 EXCEPT !.acknowledged_at = now] ELSE s2)
                  EXCEPT !.resolved_at = now]
            ELSE s2
  IN s3

\* an update that takes the incident out of the list
update_incident_status_removing(incs, incident_id, status, now) ==
  LET i == FirstIndex(incs, incident_id)
  IN IF i = 0 THEN incs
     ELSE SubSeq(incs, 1, i - 1) \o SubSeq(incs, i + 1, Len(incs))

\* the list after update_incident_status(incident_id, status) with a status
\* that passed validation
update_incident_status(incs, incident_id, status, now) ==
  LET i == FirstIndex(incs, incident_id)
  IN IF i = 0 THEN incs
     ELSE [incs EXCEPT ![i] = UpdatedIncident(incs[i], status, now)]

\* what update_incident_status returns then: a copy of the updated incident,
\* or None when no incident has that id
UpdateResult(incs, incident_id, status, now) ==
  LET i == FirstIndex(incs, incident_id)
  IN IF i = 0 THEN [kind |-> "None"]
     ELSE [kind |-> "incident", incident |-> UpdatedIncident(incs[i], status, now)]

\* serialize_datetime: an ISO-8601 string, or JSON null for None
serialize_datetime(value) ==
  IF value = None THEN "null" ELSE "T+" \o ToString(value) \o "min"

\* serialize_incident: the three timestamps serialized, the rest copied
serialize_incident(incident) ==
  [incident EXCEPT !.detected_at = serialize_datetime(incident.detected_at),
                   !.acknowledged_at = serialize_datetime(incident.acknowledged_at),
                   !.resolved_at = serialize_datetime(incident.resolved_at)]

\* ------------------------------------------------------ data_store: sensors
Max(a, b) == IF a >= b THEN a ELSE b
Min(a, b) == IF a <= b THEN a ELSE b

\* round(n / d) as Python rounds: to the nearest integer, halves to even
RoundHalfEven(n, d) ==
  LET q == n \div d
      r == n % d
  IN  IF 2 * r < d THEN q
      ELSE IF 2 * r > d THEN q + 1
      ELSE IF q % 2 = 0 THEN q ELSE q + 1

\* get_sensors(): the list in canonical order
get_sensors(sens) == sens

\* the Traffic branch; jitter in thousandths, int() truncates a non-negative
\* product, avg_speed_kmh is rounded to one decimal (tenths)
TrafficPayload(payload, jitter) ==
  [vehicle_count |-> Max(0, (payload.vehicle_count * (1000 + jitter)) \div 1000),
   avg_speed_kmh |-> Max(0, RoundHalfEven(payload.avg_speed_kmh * (1000 - jitter), 1000))]

\* the Utilities branch without the clamp of ph
UtilitiesPayloadUnclampedPh(payload, jitter) ==
  [chlorine_ppm |-> RoundHalfEven(Max(0, payload.chlorine_ppm * (1000 + jitter)), 1000),
   ph |-> RoundHalfEven(payload.ph * 10 + jitter, 10)]

\* the Utilities branch; both values rounded to two decimals (hundredths)
UtilitiesPayload(payload, jitter) ==
  [chlorine_ppm |-> RoundHalfEven(Max(0, payload.chlorine_ppm * (1000 + jitter)), 1000),
   ph |-> RoundHalfEven(Min(8500, Max(6500, payload.ph * 10 + jitter)), 10)]

\* the Public Safety branch; jitter / 2 is in two-thousandths
PublicSafetyPayload(payload, jitter) ==
  [anomaly_score |-> RoundHalfEven(Min(2000, Max(0, payload.anomaly_score * 20 + jitter)), 20)]

NewPayload(sensor_type, payload, jitter) ==
  CASE sensor_type = "Traffic" -> TrafficPayload(payload, jitter)
    [] sensor_type = "Utilities" -> UtilitiesPayload(payload, jitter)
    [] sensor_type = "Public Safety" -> PublicSafetyPayload(payload, jitter)
    [] OTHER -> payload

\* a tick that leaves the status as it was
SensorStatusStale(sensor_type, payload, status) == status

\* the status each branch assigns from the payload it has just written
SensorStatus(sensor_type, payload, status) ==
  CASE sensor_type = "Traffic" ->
         IF payload.avg_speed_kmh < 100 THEN "alert" ELSE "warning"
    [] sensor_type = "Utilities" ->
         IF payload.chlorine_ppm > 150 THEN "warning" ELSE "healthy"
    [] sensor_type = "Public Safety" ->
         IF payload.anomaly_score > 70 THEN "alert" ELSE "healthy"
    [] OTHER -> status

MutateSensor(sensor, jitter, now) ==
  [sensor EXCEPT
     !.last_update = now,
     !.payload = NewPayload(sensor.type, sensor.payload, jitter),
     !.status = SensorStatus(sensor.type,
                             NewPayload(sensor.type, sensor.payload, jitter),
                             sensor.status)]

\* mutate_sensor_payloads(): one _rng.uniform(-0.1, 0.1) draw per sensor
mutate_sensor_payloads(sens, jitters, now) ==
  [i \in DOMAIN sens |-> MutateSensor(sens[i], jitters[i], now)]

\* ------------------------------------------------------------- analytics
\* _minutes_between(start, end); times are already in minutes
minutes_between(start, end) ==
  IF start = None \/ end = None THEN None ELSE end - start

RECURSIVE SumSeq(_)
SumSeq(seq) == IF seq = <<>> THEN 0 ELSE Head(seq) + SumSeq(Tail(seq))

\* Counter(incident[field] for incident in incidents)[value]
CountOf(incs, field, value) ==
  Cardinality({i \in DOMAIN incs : incs[i][field] = value})

\* dict(Counter(...)): the values that occur, each with its count
Breakdown(incs, field) ==
  [value \in {incs[i][field] : i \in DOMAIN incs} |-> CountOf(incs, field, value)]

\* the status counter handed out as it is, without the pass over STATUSES
status_breakdown_of_present(incs) == Breakdown(incs, "status")

\* {status: totals.get(status, 0) for status in STATUSES}
status_breakdown(incs) ==
  [status \in Range(STATUSES) |-> CountOf(incs, "status", status)]

RECURSIVE acknowledgement_times(_)
acknowledgement_times(incs) ==
  IF incs = <<>> THEN <<>>
  ELSE (IF Head(incs).acknowledged_at # None
        THEN <<minutes_between(Head(incs).detected_at, Head(incs).acknowledged_at)>>
        ELSE <<>>) \o acknowledgement_times(Tail(incs))

RECURSIVE resolution_times(_)
resolution_times(incs) ==
  IF incs = <<>> THEN <<>>
  ELSE (IF Head(incs).resolved_at # None
        THEN <<minutes_between(IF Head(incs).acknowledged_at # None
                               THEN Head(incs).acknowledged_at
                               ELSE Head(incs).detected_at,
                               Head(incs).resolved_at)>>
        ELSE <<>>) \o resolution_times(Tail(incs))

\* round(sum(times) / len(times), 1) in tenths of a minute, None for no times
AverageMinutes(times) ==
  IF times = <<>> THEN None ELSE RoundHalfEven(SumSeq(times) * 10, Len(times))

\* detected_at.strftime("%Y-%m-%d %H:00"): the hour the minute lies in; the
\* keys order as the hours do
HourBucket(detected_at) == detected_at \div 60

RECURSIVE AscendingBuckets(_)
AscendingBuckets(keys) ==
  IF keys = {} THEN <<>>
  ELSE LET first == CHOOSE k \in keys : \A other \in keys : k <= other
       IN  <<first>> \o AscendingBuckets(keys \ {first})

\* the timeline with the latest hour first
incidents_timeline_latest_first(incs) ==
  LET keys == AscendingBuckets({HourBucket(incs[i].detected_at) : i \in DOMAIN incs})
  IN  [n \in DOMAIN keys |->
         <<keys[Len(keys) + 1 - n],
           Cardinality({i \in DOMAIN incs :
                          HourBucket(incs[i].detected_at) = keys[Len(keys) + 1 - n]})>>]

\* sorted(timeline.items(), key=lambda item: item[0])
incidents_timeline(incs) ==
  LET keys == AscendingBuckets({HourBucket(incs[i].detected_at) : i \in DOMAIN incs})
  IN  [n \in DOMAIN keys |->
         <<keys[n],
           Cardinality({i \in DOMAIN incs : HourBucket(incs[i].detected_at) = keys[n]})>>]

calculate_metrics(incs) ==
  [total_incidents |-> Len(incs),
   status_breakdown |-> status_breakdown(incs),
   category_breakdown |-> Breakdown(incs, "category"),
   severity_breakdown |-> Breakdown(incs, "severity"),
   avg_ack_minutes |-> AverageMinutes(acknowledgement_times(incs)),
   avg_resolution_minutes |-> AverageMinutes(resolution_times(incs)),
   incidents_timeline |-> incidents_timeline(incs)]

\* -------------------------------------------------------------- security
DEFAULT_USERNAME == "incident-operator"
DEFAULT_PASSWORD == "secure-demo"

verify_credentials(username, password) ==
  IF username # DEFAULT_USERNAME THEN FALSE ELSE password = DEFAULT_PASSWORD

\* ---------------------------------------------------------------- routes
EmptySession == [key \in {} |-> ""]
SessionGet(sess, key, default) == IF key \in DOMAIN sess THEN sess[key] ELSE default
SessionSet(sess, key, value) ==
  [k \in DOMAIN sess \cup {key} |-> IF k = key THEN value ELSE sess[k]]
SessionPop(sess, key) == [k \in DOMAIN sess \ {key} |-> sess[k]]

\* a guard that lets every request through
NoSessionCheck(sess) == TRUE

\* session.get("user") is truthy
HasUser(sess) == "user" \in DOMAIN sess

\* URLs are (netloc, path) pairs; a relative URL has an empty netloc and the
\* absent ?next= argument is the empty URL
HostNetloc == "localhost"
NoUrl == [netloc |-> "", path |-> ""]
DashboardUrl == [netloc |-> "", path |-> "/"]
LoginUrl == [netloc |-> "", path |-> "/login"]

\* _is_safe_redirect: the target, joined onto the host URL, stays on the host
is_safe_redirect(target) ==
  IF target = NoUrl THEN FALSE
  ELSE (IF target.netloc = "" THEN HostNetloc ELSE target.netloc) = HostNetloc

\* _remember_post_auth_target
remember_post_auth_target(sess, next_url) ==
  IF next_url # NoUrl /\ is_safe_redirect(next_url)
  THEN SessionSet(sess, "post_auth_redirect", next_url) ELSE sess

\* _ensure_github_state: a fresh token is stored unless the session has one
ensure_github_state(sess, token) ==
  IF "github_oauth_state" \in DOMAIN sess THEN sess
  ELSE SessionSet(sess, "github_oauth_state", token)

\* _resolve_post_auth_target: the redirect target (the session key is popped
\* by the caller)
resolve_post_auth_target(sess, next_url) ==
  LET remembered == SessionGet(sess, "post_auth_redirect", NoUrl)
  IN IF remembered # NoUrl /\ is_safe_redirect(remembered) THEN remembered
     ELSE IF next_url # NoUrl /\ is_safe_redirect(next_url) THEN next_url
     ELSE DashboardUrl

\* a state check that only asks for both states to be there
StateMissing(expected_state, received_state) ==
  expected_state = "" \/ received_state = ""

\* not expected_state or not received_state or received_state != expected_state;
\* "" stands for a state that is missing or empty
StateRejected(expected_state, received_state) ==
  expected_state = "" \/ received_state = "" \/ received_state # expected_state

\* the messages github_callback leaves in session["auth_error"]
AuthErrorNotConfigured == "GitHub login is not configured."
AuthErrorDenied == "GitHub authorization was denied."
AuthErrorInvalidState == "Invalid or expired GitHub login request. Please try again."
AuthErrorMissingCode == "Missing authorization code from GitHub."
AuthErrorTokenExchange == "Could not authenticate with GitHub. Please try again."
AuthErrorNoToken == "GitHub did not return an access token."
AuthErrorUserLookup == "Unable to fetch GitHub profile information."
AuthErrorNoLogin == "GitHub profile is missing a username."

\* what the two requests to GitHub can come to, and the message for each failure
GithubOutcomes == {"ok", "token_error", "no_token", "user_error", "no_login"}
GithubFailureMessage(outcome) ==
  CASE outcome = "token_error" -> AuthErrorTokenExchange
    [] outcome = "no_token" -> AuthErrorNoToken
    [] outcome = "user_error" -> AuthErrorUserLookup
    [] outcome = "no_login" -> AuthErrorNoLogin

\* session["user"] after a GitHub login
GithubUser ==
  [username |-> "octocat", name |-> "octocat", avatar_url |-> "None",
   auth_provider |-> "github"]

\* an HTTP response; store_calls lists the data_store functions the handler
\* called, in order
Response(code, body, store_calls) ==
  [kind |-> "response", code |-> code, body |-> body, store_calls |-> store_calls]

\* ------------------------------------------------------------ routes: ai
\* classify_sensor_event(sensor): the severity a score maps to, rising with
\* the score.  Scores are in hundredths, 0 .. 100; the score itself is an input
suggested_severity(score) ==
  IF score >= 85 THEN "critical"
  ELSE IF score >= 65 THEN "high"
  ELSE IF score >= 40 THEN "medium"
  ELSE "low"

classify_sensor_event(sensor, score) ==
  [score |-> score, suggested_severity |-> suggested_severity(score)]

\* build_incident_recommendation(sensor): the draft handed to add_incident;
\* score is the classification the draft's severity comes from
build_incident_recommendation(sensor, score) ==
  [title |-> sensor.id,
   category |-> sensor.type,
   severity |-> suggested_severity(score),
   location |-> sensor.location,
   description |-> "sensor reading",
   impact |-> "sensor reading"]

\* ------------------------------------------------------ routes: simulate
\* candidates, one per sensor in list order
Candidates(sens, scores) ==
  [i \in DOMAIN sens |->
     [score |-> scores[i],
      suggested_severity |-> classify_sensor_event(sens[i], scores[i]).suggested_severity,
      sensor |-> sens[i]]]

\* the order of a stable descending sort, as list indices, best first: equal
\* scores keep their list order
StableOrder(scores) ==
  LET position(i) ==
        1 + Cardinality({j \in DOMAIN scores :
                           scores[j] > scores[i] \/ (scores[j] = scores[i] /\ j < i)})
  IN  [p \in DOMAIN scores |-> CHOOSE i \in DOMAIN scores : position(i) = p]

\* a descending sort in which the later of two equal scores comes first
SortByScoreLaterFirst(candidates) ==
  LET position(i) ==
        1 + Cardinality({j \in DOMAIN candidates :
                           \/ candidates[j].score > candidates[i].score
                           \/ candidates[j].score = candidates[i].score /\ j > i})
  IN  [p \in DOMAIN candidates |->
         candidates[CHOOSE i \in DOMAIN candidates : position(i) = p]]

\* candidates.sort(key=lambda item: item["score"], reverse=True): list.sort
\* is stable, with reverse=True too
SortByScore(candidates) ==
  LET order == StableOrder([i \in DOMAIN candidates |-> candidates[i].score])
  IN  [p \in DOMAIN candidates |-> candidates[order[p]]]

\* a threshold that the score has to exceed
ExceedsThreshold(score) == score > 50

\* top["score"] >= 0.5
MeetsThreshold(score) == score >= 50

\* _serialize_sensors over the sensors enriched with their predictions
SerializedSensors(sens, scores) ==
  [i \in DOMAIN sens |->
     [id |-> sens[i].id, type |-> sens[i].type, location |-> sens[i].location,
      last_update |-> serialize_datetime(sens[i].last_update),
      status |-> sens[i].status, payload |-> sens[i].payload,
      prediction |-> classify_sensor_event(sens[i], scores[i])]]

\* the sensor_scores of the response
SensorScores(candidates) ==
  [p \in DOMAIN candidates |->
     [sensor_id |-> candidates[p].sensor.id,
      score |-> candidates[p].score,
      suggested_severity |-> candidates[p].suggested_severity]]

\* ---------------------------------------------------------------- inputs
\* mappings handed to add_incident: the empty one, the one of the test suite,
\* one without a category and with a severity outside the enumeration, and one
\* without a severity, with a category outside the enumeration and with the
\* keys add_incident sets itself
DataInputs == 1 .. 4
DataInput(k) ==
  CASE k = 1 -> [x \in {} |-> ""]
    [] k = 2 -> [title |-> "Test incident", category |-> "Utilities", severity |-> "medium"]
    [] k = 3 -> [severity |-> "extreme", location |-> "Harbour",
                 description |-> "Manual report.", impact |-> "Not assessed."]
    [] OTHER -> [category |-> "Weather", id |-> 998, status |-> "resolved",
                 detected_at |-> 0, acknowledged_at |-> 1, resolved_at |-> 2,
                 root_cause |-> "known"]

\* values _rng.choice(CATEGORIES) and _rng.choice(SEVERITIES) are explored
\* with: the first and the last member of each enumeration
CategoryDraws == {CATEGORIES[1], CATEGORIES[Len(CATEGORIES)]}
SeverityDraws == {SEVERITIES[1], SEVERITIES[Len(SEVERITIES)]}

\* statuses a caller may pass: the three supported ones and an unsupported one
StatusInputs == Range(STATUSES) \cup {"bogus"}

\* ids a caller may pass: every id in use and the next unused one
IdInputs == 998 .. incident_id_sequence

\* ?next= arguments of /login
NextInputs == {NoUrl, [netloc |-> "", path |-> "/api/dashboard"],
               [netloc |-> "evil.example", path |-> "/"]}
\* credentials posted to /login
CredentialInputs == {<<DEFAULT_USERNAME, DEFAULT_PASSWORD>>, <<DEFAULT_USERNAME, "guess">>}
\* values of secrets.token_urlsafe(16)
TokenInputs == {"token-a", "token-b"}
\* Accept headers: JSON only, or one that admits HTML
AcceptInputs == {"json", "html"}
\* "status" properties of a PATCH body; "" is a body without one
PatchStatusInputs == StatusInputs \cup {""}

\* the draws of _rng.uniform(-0.1, 0.1) for the three sensors, in thousandths:
\* both ends of the interval and one mixed draw
JitterInputs == {<<100, 100, 100>>, <<-100, -100, -100>>, <<37, -64, 100>>}

\* lists handed to calculate_metrics: the newest incidents of the store, none
\* of them up to all of them
MetricsInputs ==
  {SubSeq(get_incidents(incidents), 1, n) : n \in 0 .. Len(incidents)}

\* requests to /oauth/github/callback: whether the app has GitHub credentials
\* configured, whether GitHub reports an error, the state parameter ("" when
\* absent), whether a code is sent, and what GitHub answers to the exchange.
\* A parameter that the handler does not get to read is left at one value
CallbackInputs ==
  {request \in [configured : BOOLEAN, error : BOOLEAN,
                state : TokenInputs \cup {""}, code : BOOLEAN,
                outcome : GithubOutcomes] :
     /\ (~request.configured \/ request.error) =>
          (request.state = "" /\ request.code /\ request.outcome = "ok")
     /\ ~request.configured => ~request.error
     /\ ~request.code => request.outcome = "ok"}

\* the scores classify_sensor_event gives the three sensors, in hundredths:
\* all below the threshold, a tie at the threshold, a tie at the top between
\* the last two, three different scores, and a tie just below the threshold
ScoreInputs == {<<20, 30, 40>>, <<50, 10, 50>>, <<49, 90, 90>>, <<70, 60, 100>>,
                <<49, 49, 49>>}

NoneResult == [kind |-> "None"]
\* no update_incident_status call is under way
NoFrame == [pc |-> "idle"]
IncidentResult(incident) == [kind |-> "incident", incident |-> incident]

\* ------------------------------------------------------------------ Init
Init ==
  /\ incidents = SeedIncidents
  /\ incident_id_sequence = FirstId
  /\ clock = StartTime
  /\ call = [op |-> "import"]
  /\ result = NoneResult
  /\ calls = 0
  /\ session = EmptySession
  /\ sensors = SeedSensors
  /\ aliases = {}
  /\ updating = NoFrame

\* --------------------------------------------------------------- actions
\* time passes between two calls
AdvanceClock ==
  /\ clock < StartTime + MaxTicks
  /\ clock' = clock + 1
  /\ UNCHANGED <<incidents, incident_id_sequence, call, result, calls, session,
                 sensors, aliases, updating>>

\* add_incident(data)
AddIncident(k, category_choice, severity_choice) ==
  /\ calls < MaxCalls
  /\ calls' = calls + 1
  /\ call' = [op |-> "add_incident", data |-> DataInput(k)]
  /\ LET incident == NewIncident(DataInput(k), incident_id_sequence, clock,
                                 category_choice, severity_choice)
     IN /\ incidents' = Append(incidents, incident)
        /\ result' = IncidentResult(incident)
  /\ aliases' = deepcopy({IncidentRef(Len(incidents) + 1)})
  /\ incident_id_sequence' = NextSequenceValue(incident_id_sequence)
  /\ UNCHANGED <<clock, session, sensors, updating>>

\* update_incident_status(incident_id, status)
UpdateIncidentStatus(incident_id, status) ==
  /\ calls < MaxCalls
  /\ calls' = calls + 1
  /\ call' = [op |-> "update_incident_status", incident_id |-> incident_id,
              status |-> status]
  /\ IF ~ValidStatus(status)
     THEN /\ result' = [kind |-> "ValueError", status |-> status]
          /\ UNCHANGED <<incidents, aliases>>
     ELSE /\ incidents' = update_incident_status(incidents, incident_id, status, clock)
          /\ result' = UpdateResult(incidents, incident_id, status, clock)
          /\ aliases' = IF FirstIndex(incidents, incident_id) = 0 THEN {}
                        ELSE deepcopy({IncidentRef(FirstIndex(incidents, incident_id))})
  /\ UNCHANGED <<incident_id_sequence, clock, session, sensors, updating>>

\* get_incident(incident_id)
GetIncident(incident_id) ==
  /\ calls < MaxCalls
  /\ calls' = calls + 1
  /\ call' = [op |-> "get_incident", incident_id |-> incident_id]
  /\ result' = get_incident(incidents, incident_id)
  /\ aliases' = IF FirstIndex(incidents, incident_id) = 0 THEN {}
                ELSE deepcopy({IncidentRef(FirstIndex(incidents, incident_id))})
  /\ UNCHANGED <<incidents, incident_id_sequence, clock, session, sensors, updating>>

\* get_incidents()
GetIncidents ==
  /\ calls < MaxCalls
  /\ calls' = calls + 1
  /\ call' = [op |-> "get_incidents"]
  /\ result' = [kind |-> "list", incidents |-> get_incidents(incidents)]
  /\ aliases' = deepcopy({IncidentRef(i) : i \in DOMAIN incidents})
  /\ UNCHANGED <<incidents, incident_id_sequence, clock, session, sensors, updating>>

\* the caller overwrites the value the last accessor handed it; the writes
\* land in every store object that value shares with the store
CallerMutates ==
  /\ calls < MaxCalls
  /\ result.kind \in {"incident", "list", "sensors"}
  /\ calls' = calls + 1
  /\ call' = [op |-> "caller_mutates", held |-> result.kind, from |-> call.op]
  /\ incidents' = [i \in DOMAIN incidents |->
                     IF IncidentRef(i) \in aliases
                     THEN WrittenIncident(incidents[i]) ELSE incidents[i]]
  /\ sensors' = [i \in DOMAIN sensors |->
                   IF SensorRef(i) \in aliases
                   THEN WrittenSensor(sensors[i]) ELSE sensors[i]]
  /\ UNCHANGED <<incident_id_sequence, clock, result, session, aliases, updating>>

\* calculate_metrics(incidents), called directly on a list of incidents
CalculateMetrics(incident_list) ==
  /\ calls < MaxCalls
  /\ calls' = calls + 1
  /\ call' = [op |-> "calculate_metrics", incidents |-> incident_list]
  /\ result' = [kind |-> "metrics", metrics |-> calculate_metrics(incident_list)]
  /\ UNCHANGED <<incidents, incident_id_sequence, clock, session, sensors, aliases,
                 updating>>

\* mutate_sensor_payloads(), called directly; budget bounds the calls made
MutateSensorPayloads(jitters, budget) ==
  /\ calls < budget
  /\ calls' = calls + 1
  /\ call' = [op |-> "mutate_sensor_payloads", jitters |-> jitters]
  /\ sensors' = mutate_sensor_payloads(sensors, jitters, clock)
  /\ result' = NoneResult
  /\ UNCHANGED <<incidents, incident_id_sequence, clock, session, aliases, updating>>

\* get_sensors(), called directly
GetSensors(budget) ==
  /\ calls < budget
  /\ calls' = calls + 1
  /\ call' = [op |-> "get_sensors"]
  /\ result' = [kind |-> "sensors", sensors |-> get_sensors(sensors)]
  /\ aliases' = deepcopy({SensorRef(i) : i \in DOMAIN sensors})
  /\ UNCHANGED <<incidents, incident_id_sequence, clock, session, sensors, updating>>

\* GET or POST /login
Login(method, credentials, next_url, token) ==
  /\ calls < MaxCalls
  /\ calls' = calls + 1
  /\ call' = [op |-> "login", method |-> method, next |-> next_url]
  /\ LET s1 == remember_post_auth_target(session, next_url)
         s2 == ensure_github_state(s1, token)
         s3 == SessionPop(s2, "auth_error")
     IN IF method = "POST"
        THEN IF verify_credentials(credentials[1], credentials[2])
             THEN /\ session' = SessionPop(
                                   SessionSet(s3, "user", [username |-> credentials[1]]),
                                   "post_auth_redirect")
                  /\ result' = Response(302, resolve_post_auth_target(s3, next_url), <<>>)
             ELSE /\ session' = s3
                  /\ result' = Response(401, "Invalid credentials", <<>>)
        ELSE /\ session' = s3
             /\ result' = IF HasUser(s3) THEN Response(302, DashboardUrl, <<>>)
                          ELSE Response(200, "login.html", <<>>)
  /\ UNCHANGED <<incidents, incident_id_sequence, clock, sensors, aliases, updating>>

\* GET /logout
Logout ==
  /\ calls < MaxCalls
  /\ calls' = calls + 1
  /\ call' = [op |-> "logout"]
  /\ session' = SessionPop(session, "user")
  /\ result' = Response(302, LoginUrl, <<>>)
  /\ UNCHANGED <<incidents, incident_id_sequence, clock, sensors, aliases, updating>>

\* GET /oauth/github/callback
GithubCallback(request) ==
  /\ calls < MaxCalls
  /\ calls' = calls + 1
  /\ call' = [op |-> "github_callback", configured |-> request.configured,
              error |-> request.error, state |-> request.state,
              code |-> request.code, outcome |-> request.outcome]
  /\ LET expected_state == SessionGet(session, "github_oauth_state", "")
         popped == SessionPop(session, "github_oauth_state")
     IN IF ~request.configured
        THEN /\ session' = SessionSet(session, "auth_error", AuthErrorNotConfigured)
             /\ result' = Response(302, LoginUrl, <<>>)
        ELSE IF request.error
        THEN /\ session' = SessionSet(session, "auth_error", AuthErrorDenied)
             /\ result' = Response(302, LoginUrl, <<>>)
        ELSE IF StateRejected(expected_state, request.state)
        THEN /\ session' = SessionPop(
                              SessionSet(session, "auth_error", AuthErrorInvalidState),
                              "github_oauth_state")
             /\ result' = Response(302, LoginUrl, <<>>)
        ELSE IF ~request.code
        THEN /\ session' = SessionSet(popped, "auth_error", AuthErrorMissingCode)
             /\ result' = Response(302, LoginUrl, <<>>)
        ELSE IF request.outcome # "ok"
        THEN /\ session' = SessionSet(popped, "auth_error",
                                      GithubFailureMessage(request.outcome))
             /\ result' = Response(302, LoginUrl, <<>>)
        ELSE /\ session' = SessionPop(SessionSet(popped, "user", GithubUser),
                                      "post_auth_redirect")
             /\ result' = Response(302, resolve_post_auth_target(popped, NoUrl), <<>>)
  /\ UNCHANGED <<incidents, incident_id_sequence, clock, sensors, aliases, updating>>

\* login_required turning away a request to a protected endpoint
LoginRequired(endpoint, accept) ==
  /\ calls < MaxCalls
  /\ ~HasUser(session)
  /\ calls' = calls + 1
  /\ call' = [op |-> "login_required", endpoint |-> endpoint, accept |-> accept]
  /\ result' = IF accept = "json" THEN Response(401, "Unauthorized", <<>>)
               ELSE Response(302, LoginUrl, <<>>)
  /\ UNCHANGED <<incidents, incident_id_sequence, clock, session, sensors, aliases,
                 updating>>

\* GET or POST /api/incidents, past login_required
IncidentsCollection(method, k, category_choice, severity_choice) ==
  /\ calls < MaxCalls
  /\ HasUser(session)
  /\ calls' = calls + 1
  /\ IF method = "POST"
     THEN LET incident == NewIncident(DataInput(k), incident_id_sequence, clock,
                                      category_choice, severity_choice)
          IN /\ call' = [op |-> "incidents_collection", method |-> method,
                         payload |-> DataInput(k)]
             /\ incidents' = Append(incidents, incident)
             /\ incident_id_sequence' = NextSequenceValue(incident_id_sequence)
             /\ result' = Response(201, serialize_incident(incident), <<"add_incident">>)
     ELSE /\ call' = [op |-> "incidents_collection", method |-> method]
          /\ result' = Response(200,
                                [i \in DOMAIN incidents |->
                                   serialize_incident(get_incidents(incidents)[i])],
                                <<"get_incidents">>)
          /\ UNCHANGED <<incidents, incident_id_sequence>>
  /\ UNCHANGED <<clock, session, sensors, aliases, updating>>

\* GET or PATCH /api/incidents/<incident_id>, past login_required
IncidentDetail(method, incident_id, target_status) ==
  /\ calls < MaxCalls
  /\ HasUser(session)
  /\ calls' = calls + 1
  /\ call' = [op |-> "incident_detail", method |-> method,
              incident_id |-> incident_id, status |-> target_status]
  /\ LET incident == get_incident(incidents, incident_id)
     IN IF incident = NoneResult
        THEN /\ result' = Response(404, "Not Found", <<"get_incident">>)
             /\ UNCHANGED incidents
        ELSE IF method = "PATCH"
        THEN IF target_status = ""
             THEN /\ result' = Response(400, "Missing status property", <<"get_incident">>)
                  /\ UNCHANGED incidents
             ELSE IF ~ValidStatus(target_status)
             THEN /\ result' = Response(500, "ValueError",
                                        <<"get_incident", "update_incident_status">>)
                  /\ UNCHANGED incidents
             ELSE LET updated == UpdateResult(incidents, incident_id,
                                              target_status, clock)
                  IN /\ incidents' = update_incident_status(incidents, incident_id,
                                                            target_status, clock)
                     /\ result' = IF updated = NoneResult
                                  THEN Response(500, "TypeError",
                                         <<"get_incident", "update_incident_status">>)
                                  ELSE Response(200, serialize_incident(updated.incident),
                                         <<"get_incident", "update_incident_status">>)
        ELSE /\ result' = Response(200, serialize_incident(incident.incident),
                                   <<"get_incident">>)
             /\ UNCHANGED incidents
  /\ UNCHANGED <<incident_id_sequence, clock, session, sensors, aliases, updating>>

\* GET /, past login_required
Dashboard ==
  /\ calls < MaxCalls
  /\ HasUser(session)
  /\ calls' = calls + 1
  /\ call' = [op |-> "dashboard"]
  /\ result' = Response(200, "dashboard.html", <<>>)
  /\ UNCHANGED <<incidents, incident_id_sequence, clock, session, sensors, aliases,
                 updating>>

\* GET /api/sensors, past login_required
SensorsCollection(jitters, scores) ==
  /\ calls < MaxCalls
  /\ HasUser(session)
  /\ calls' = calls + 1
  /\ call' = [op |-> "sensors_collection", jitters |-> jitters, scores |-> scores]
  /\ sensors' = mutate_sensor_payloads(sensors, jitters, clock)
  /\ result' = Response(200, SerializedSensors(get_sensors(sensors'), scores),
                        <<"mutate_sensor_payloads", "get_sensors">>)
  /\ UNCHANGED <<incidents, incident_id_sequence, clock, session, aliases, updating>>

\* GET /api/dashboard, past login_required
DashboardPayload(scores) ==
  /\ calls < MaxCalls
  /\ HasUser(session)
  /\ calls' = calls + 1
  /\ call' = [op |-> "dashboard_payload", scores |-> scores]
  /\ result' = Response(200,
                        [incidents |-> [i \in DOMAIN incidents |->
                                          serialize_incident(get_incidents(incidents)[i])],
                         metrics |-> calculate_metrics(get_incidents(incidents)),
                         sensors |-> SerializedSensors(get_sensors(sensors), scores)],
                        <<"get_incidents", "get_sensors">>)
  /\ UNCHANGED <<incidents, incident_id_sequence, clock, session, sensors, aliases,
                 updating>>

\* POST /api/simulate, past login_required
SimulateEvent(jitters, scores) ==
  /\ calls < MaxCalls
  /\ HasUser(session)
  /\ calls' = calls + 1
  /\ call' = [op |-> "simulate_event", jitters |-> jitters, scores |-> scores]
  /\ sensors' = mutate_sensor_payloads(sensors, jitters, clock)
  /\ \E candidates \in {SortByScore(Candidates(get_sensors(sensors'), scores))} :
     LET top == candidates[1]
         incident == NewIncident(build_incident_recommendation(top.sensor, top.score),
                                 incident_id_sequence, clock,
                                 CATEGORIES[1], SEVERITIES[1])
     IN IF MeetsThreshold(top.score)
        THEN /\ incidents' = Append(incidents, incident)
             /\ incident_id_sequence' = NextSequenceValue(incident_id_sequence)
             /\ result' = Response(200,
                                   [created_incident |-> serialize_incident(incident),
                                    sensor_scores |-> SensorScores(candidates)],
                                   <<"mutate_sensor_payloads", "get_sensors",
                                     "add_incident">>)
        ELSE /\ UNCHANGED <<incidents, incident_id_sequence>>
             /\ result' = Response(200,
                                   [created_incident |-> NoneResult,
                                    sensor_scores |-> SensorScores(candidates)],
                                   <<"mutate_sensor_payloads", "get_sensors">>)
  /\ UNCHANGED <<clock, session, aliases, updating>>

\* update_incident_status(incident_id, status) in a request thread of its
\* own, statement by statement.  The call starts with the status check and the
\* search for the incident, which read nothing that is ever written
UpdateStart(incident_id, status) ==
  /\ calls < MaxCalls
  /\ updating = NoFrame
  /\ calls' = calls + 1
  /\ IF ~ValidStatus(status)
     THEN /\ call' = [op |-> "update_incident_status", incident_id |-> incident_id,
                      status |-> status]
          /\ result' = [kind |-> "ValueError", status |-> status]
          /\ UNCHANGED updating
     ELSE IF FirstIndex(incidents, incident_id) = 0
     THEN /\ call' = [op |-> "update_incident_status", incident_id |-> incident_id,
                      status |-> status]
          /\ result' = NoneResult
          /\ UNCHANGED updating
     ELSE /\ updating' = [pc |-> "status", index |-> FirstIndex(incidents, incident_id),
                          incident_id |-> incident_id, status |-> status, now |-> None]
          /\ UNCHANGED <<call, result>>
  /\ UNCHANGED <<incidents, incident_id_sequence, clock, session, sensors, aliases>>

\* incident["status"] = status
UpdateAssignStatus ==
  /\ updating.pc = "status"
  /\ incidents' = [incidents EXCEPT ![updating.index].status = updating.status]
  /\ updating' = [updating EXCEPT !.pc = "now"]
  /\ UNCHANGED <<incident_id_sequence, clock, call, result, calls, session, sensors,
                 aliases>>

\* now = _now()
UpdateReadNow ==
  /\ updating.pc = "now"
  /\ updating' = [updating EXCEPT !.pc = "acknowledged", !.now = clock]
  /\ UNCHANGED <<incidents, incident_id_sequence, clock, call, result, calls, session,
                 sensors, aliases>>

\* if status == "acknowledged" and incident["acknowledged_at"] is None: ...
UpdateStampAcknowledged ==
  /\ updating.pc = "acknowledged"
  /\ incidents' = IF updating.status = "acknowledged"
                     /\ incidents[updating.index].acknowledged_at = None
                  THEN [incidents EXCEPT ![updating.index].acknowledged_at = updating.now]
                  ELSE incidents
  /\ updating' = [updating EXCEPT !.pc = "resolved"]
  /\ UNCHANGED <<incident_id_sequence, clock, call, result, calls, session, sensors,
                 aliases>>

\* if status == "resolved": if incident["acknowledged_at"] is None: ...
UpdateResolvedAcknowledged ==
  /\ updating.pc = "resolved"
  /\ incidents' = IF updating.status = "resolved"
                     /\ incidents[updating.index].acknowledged_at = None
                  THEN [incidents EXCEPT ![updating.index].acknowledged_at = updating.now]
                  ELSE incidents
  /\ updating' = [updating EXCEPT !.pc = "resolved_at"]
  /\ UNCHANGED <<incident_id_sequence, clock, call, result, calls, session, sensors,
                 aliases>>

\* incident["resolved_at"] = now, under if status == "resolved"
UpdateResolvedAt ==
  /\ updating.pc = "resolved_at"
  /\ incidents' = IF updating.status = "resolved"
                  THEN [incidents EXCEPT ![updating.index].resolved_at = updating.now]
                  ELSE incidents
  /\ updating' = [updating EXCEPT !.pc = "return"]
  /\ UNCHANGED <<incident_id_sequence, clock, call, result, calls, session, sensors,
                 aliases>>

\* return deepcopy(incident)
UpdateReturn ==
  /\ updating.pc = "return"
  /\ call' = [op |-> "update_incident_status", incident_id |-> updating.incident_id,
              status |-> updating.status]
  /\ result' = IncidentResult(incidents[updating.index])
  /\ aliases' = deepcopy({IncidentRef(updating.index)})
  /\ updating' = NoFrame
  /\ UNCHANGED <<incidents, incident_id_sequence, clock, calls, session, sensors>>

Next ==
  \/ AdvanceClock
  \/ \E k \in DataInputs, c \in CategoryDraws, s \in SeverityDraws :
       AddIncident(k, c, s)
  \/ \E id \in IdInputs, status \in StatusInputs : UpdateIncidentStatus(id, status)
  \/ \E id \in IdInputs : GetIncident(id)
  \/ GetIncidents

Spec == Init /\ [][Next]_vars

\* the application served over HTTP, next to direct lookups and status updates
NextHttp ==
  \/ AdvanceClock
  \/ \E method \in {"GET", "POST"}, credentials \in CredentialInputs,
        next_url \in NextInputs, token \in TokenInputs :
       Login(method, credentials, next_url, token)
  \/ Logout
  \/ \E endpoint \in {"incidents_collection", "incident_detail"},
        accept \in AcceptInputs :
       LoginRequired(endpoint, accept)
  \/ \E method \in {"GET", "POST"}, k \in DataInputs,
        c \in CategoryDraws, s \in SeverityDraws :
       IncidentsCollection(method, k, c, s)
  \/ \E method \in {"GET", "PATCH"}, id \in IdInputs, status \in PatchStatusInputs :
       IncidentDetail(method, id, status)
  \/ \E id \in IdInputs, status \in StatusInputs : UpdateIncidentStatus(id, status)
  \/ \E id \in IdInputs : GetIncident(id)

SpecHttp == Init /\ [][NextHttp]_vars

\* the sensor feed: ticks and reads of the sensor list
NextSensors ==
  \/ \E jitters \in JitterInputs : MutateSensorPayloads(jitters, MaxSensorTicks)
  \/ GetSensors(MaxSensorTicks)

SpecSensors == Init /\ [][NextSensors]_vars

\* the analytics over lists taken from a store that is written to
NextMetrics ==
  \/ AdvanceClock
  \/ \E k \in {1, 2}, c \in CategoryDraws, s \in SeverityDraws :
       AddIncident(k, c, s)
  \/ \E id \in IdInputs, status \in Range(STATUSES) : UpdateIncidentStatus(id, status)
  \/ \E incident_list \in MetricsInputs : CalculateMetrics(incident_list)

SpecMetrics == Init /\ [][NextMetrics]_vars

\* every operation of the store and the analytics, called in process by a
\* caller that also writes to what it is handed
NextOps ==
  \/ \E k \in {1, 2}, c \in CategoryDraws, s \in SeverityDraws :
       AddIncident(k, c, s)
  \/ \E id \in IdInputs, status \in StatusInputs : UpdateIncidentStatus(id, status)
  \/ \E id \in IdInputs : GetIncident(id)
  \/ GetIncidents
  \/ \E jitters \in JitterInputs : MutateSensorPayloads(jitters, MaxCalls)
  \/ GetSensors(MaxCalls)
  \/ CalculateMetrics(get_incidents(incidents))
  \/ CallerMutates

SpecOps == Init /\ [][NextOps]_vars

\* an operator who logs in and runs simulation cycles
NextSimulate ==
  \/ AdvanceClock
  \/ \E method \in {"GET", "POST"}, credentials \in CredentialInputs :
       Login(method, credentials, NoUrl, "token-a")
  \/ \E accept \in AcceptInputs : LoginRequired("simulate_event", accept)
  \/ \E jitters \in JitterInputs, scores \in ScoreInputs :
       SimulateEvent(jitters, scores)

SpecSimulate == Init /\ [][NextSimulate]_vars

\* the endpoints behind login_required
ProtectedEndpoints ==
  {"dashboard", "incidents_collection", "incident_detail", "sensors_collection",
   "dashboard_payload", "simulate_event"}

\* every protected endpoint, requested with and without a session user
NextGuard ==
  \/ \E method \in {"GET", "POST"}, credentials \in CredentialInputs :
       Login(method, credentials, NoUrl, "token-a")
  \/ Logout
  \/ \E endpoint \in ProtectedEndpoints, accept \in AcceptInputs :
       LoginRequired(endpoint, accept)
  \/ Dashboard
  \/ \E method \in {"GET", "POST"}, c \in CategoryDraws, s \in SeverityDraws :
       IncidentsCollection(method, 1, c, s)
  \/ \E method \in {"GET", "PATCH"}, id \in IdInputs, status \in PatchStatusInputs :
       IncidentDetail(method, id, status)
  \/ \E jitters \in JitterInputs, scores \in ScoreInputs :
       SensorsCollection(jitters, scores)
  \/ \E scores \in ScoreInputs : DashboardPayload(scores)
  \/ \E jitters \in JitterInputs, scores \in ScoreInputs :
       SimulateEvent(jitters, scores)

SpecGuard == Init /\ [][NextGuard]_vars

\* logging in, by password or through GitHub, and logging out
NextAuth ==
  \/ \E method \in {"GET", "POST"}, credentials \in CredentialInputs,
        next_url \in NextInputs, token \in TokenInputs :
       Login(method, credentials, next_url, token)
  \/ Logout
  \/ \E request \in CallbackInputs : GithubCallback(request)

SpecAuth == Init /\ [][NextAuth]_vars

\* the development server answers every request in a thread of its own:
\* reads of the store run while an update is between two of its statements
NextThreads ==
  \/ AdvanceClock
  \/ \E id \in IdInputs, status \in StatusInputs : UpdateStart(id, status)
  \/ UpdateAssignStatus
  \/ UpdateReadNow
  \/ UpdateStampAcknowledged
  \/ UpdateResolvedAcknowledged
  \/ UpdateResolvedAt
  \/ UpdateReturn
  \/ \E id \in IdInputs : GetIncident(id)
  \/ GetIncidents

SpecThreads == Init /\ [][NextThreads]_vars

\* ================================================================ claims
\* position of a status in the lifecycle open < acknowledged < resolved
Rank(status) == CHOOSE r \in DOMAIN STATUSES : STATUSES[r] = status

\* the step is a call of the named store function
IsCall(op) == calls' # calls /\ call'.op = op

\* no incident of the store has this id
UnknownId(incident_id) == \A i \in DOMAIN incidents : incidents[i].id # incident_id

\* C1: under any sequence of add_incident / update_incident_status calls the
\* status of an incident never moves backward in open < acknowledged < resolved.
\* The code assigns the requested status unconditionally, so this is violated.
C1_StatusNeverMovesBackward ==
  [][\A i \in DOMAIN incidents :
       Rank(incidents'[i].status) >= Rank(incidents[i].status)]_vars

\* C2: update_incident_status(id, s) on an incident whose status already is s
\* leaves acknowledged_at and resolved_at as they were.  The code overwrites
\* resolved_at on every "resolved", so this is violated once the clock moved.
C2_SameStatusIsNoOp ==
  [][(/\ IsCall("update_incident_status")
      /\ FirstIndex(incidents, call'.incident_id) # 0
      /\ incidents[FirstIndex(incidents, call'.incident_id)].status = call'.status)
     => LET i == FirstIndex(incidents, call'.incident_id)
        IN /\ incidents'[i].acknowledged_at = incidents[i].acknowledged_at
           /\ incidents'[i].resolved_at = incidents[i].resolved_at]_vars

\* C3: the ids of the store are pairwise distinct, the k-th created incident
\* has id 1000 + k, and the id add_incident returns is larger than the id of
\* every incident that was in the store before.
C3_FreshIds ==
  /\ \A i, j \in DOMAIN incidents : i # j => incidents[i].id # incidents[j].id
  /\ \A i \in DOMAIN incidents :
       i > Len(SeedIncidents) => incidents[i].id = 1000 + (i - Len(SeedIncidents))
  /\ call.op = "add_incident" =>
       /\ result.incident.id = incidents[Len(incidents)].id
       /\ \A i \in 1 .. Len(incidents) - 1 : incidents[i].id < result.incident.id

C3_Witness ==
  /\ call.op = "add_incident"
  /\ Len(incidents) = Len(SeedIncidents) + 2
  /\ result.incident.id = 1002

\* C4: every incident with a resolved_at has an acknowledged_at, not later than
\* resolved_at; the incident update_incident_status(id, "resolved") returns has
\* both, whatever its status was before.
C4_ResolvedImpliesAcknowledged ==
  /\ \A i \in DOMAIN incidents :
       incidents[i].resolved_at # None =>
         /\ incidents[i].acknowledged_at # None
         /\ incidents[i].acknowledged_at <= incidents[i].resolved_at
  /\ (call.op = "update_incident_status" /\ call.status = "resolved"
      /\ result.kind = "incident") =>
       /\ result.incident.acknowledged_at # None
       /\ result.incident.resolved_at # None
       /\ result.incident.acknowledged_at <= result.incident.resolved_at

\* an incident created in this run is resolved straight from open, after the
\* clock moved
C4_Witness ==
  /\ call.op = "update_incident_status"
  /\ call.status = "resolved"
  /\ result.kind = "incident"
  /\ result.incident.id = 1001
  /\ result.incident.detected_at < result.incident.acknowledged_at
  /\ result.incident.acknowledged_at = result.incident.resolved_at

\* C5: once acknowledged_at of an incident is set no call changes it, and
\* resolving an acknowledged incident keeps it and sets resolved_at >= it.
C5_AcknowledgedAtSetOnce ==
  [][/\ \A i \in DOMAIN incidents :
          incidents[i].acknowledged_at # None =>
            incidents'[i].acknowledged_at = incidents[i].acknowledged_at
     /\ (/\ IsCall("update_incident_status")
         /\ call'.status = "resolved"
         /\ FirstIndex(incidents, call'.incident_id) # 0
         /\ incidents[FirstIndex(incidents, call'.incident_id)].acknowledged_at # None)
        => /\ result'.incident.acknowledged_at =
                incidents[FirstIndex(incidents, call'.incident_id)].acknowledged_at
           /\ result'.incident.resolved_at >= result'.incident.acknowledged_at]_vars

\* an incident created in this run was acknowledged, and resolved a minute later
C5_Witness ==
  /\ call.op = "update_incident_status"
  /\ call.status = "resolved"
  /\ result.kind = "incident"
  /\ result.incident.id = 1001
  /\ result.incident.acknowledged_at # None
  /\ result.incident.acknowledged_at < result.incident.resolved_at

\* C6: update_incident_status with a status outside STATUSES raises the
\* invalid-status error naming the value, for every id, and changes no incident.
C6_InvalidStatusRejected ==
  [][(IsCall("update_incident_status") /\ call'.status \notin Range(STATUSES))
     => /\ result' = [kind |-> "ValueError", status |-> call'.status]
        /\ incidents' = incidents]_vars

\* the error was raised for an id no incident has
C6_Witness ==
  /\ call.op = "update_incident_status"
  /\ call.status = "bogus"
  /\ result.kind = "ValueError"
  /\ UnknownId(call.incident_id)

\* C7: for an id no incident has, get_incident and update_incident_status (with
\* a supported status) return None and leave the store unchanged, and GET and
\* PATCH /api/incidents/<id> answer 404 without calling update_incident_status.
C7_UnknownIdNotFound ==
  [][/\ (IsCall("get_incident") /\ UnknownId(call'.incident_id))
        => (result' = NoneResult /\ incidents' = incidents)
     /\ (IsCall("update_incident_status") /\ call'.status \in Range(STATUSES)
         /\ UnknownId(call'.incident_id))
        => (result' = NoneResult /\ incidents' = incidents)
     /\ (IsCall("incident_detail") /\ UnknownId(call'.incident_id))
        => /\ result'.code = 404
           /\ result'.store_calls = <<"get_incident">>
           /\ incidents' = incidents]_vars

\* a PATCH with a supported status for an id no incident has was answered 404
C7_Witness ==
  /\ call.op = "incident_detail"
  /\ call.method = "PATCH"
  /\ call.status = "resolved"
  /\ UnknownId(call.incident_id)
  /\ result.code = 404

\* C8: every incident of the store has a category of CATEGORIES and a severity
\* of SEVERITIES.  add_incident stores whatever category and severity the
\* caller supplies, so this is violated.
C8_CategoryAndSeverityEnumerated ==
  \A i \in DOMAIN incidents :
    /\ incidents[i].category \in Range(CATEGORIES)
    /\ incidents[i].severity \in Range(SEVERITIES)

\* C9: add_incident returns an incident for every mapping; it is the one
\* appended to the store, has status open, null acknowledged_at, resolved_at and
\* root_cause, the next id and the time of the call as detected_at whatever
\* keys the mapping carries, a
\* category and severity of the enumerations when the mapping has none, and
\* location "Unknown" when the mapping has none.
C9_AddIncidentDefaults ==
  call.op = "add_incident" =>
    /\ result.kind = "incident"
    /\ result.incident = incidents[Len(incidents)]
    /\ result.incident.status = "open"
    /\ result.incident.acknowledged_at = None
    /\ result.incident.resolved_at = None
    /\ result.incident.root_cause = NoRootCause
    /\ result.incident.id = incident_id_sequence - 1
    /\ result.incident.detected_at \in StartTime .. clock
    /\ "category" \notin DOMAIN call.data => result.incident.category \in Range(CATEGORIES)
    /\ "severity" \notin DOMAIN call.data => result.incident.severity \in Range(SEVERITIES)
    /\ "location" \notin DOMAIN call.data => result.incident.location = "Unknown"

\* the mapping carried id, status and timestamps of its own
C9_Witness ==
  /\ call.op = "add_incident"
  /\ {"id", "status", "acknowledged_at", "resolved_at"} \subseteq DOMAIN call.data
  /\ "severity" \notin DOMAIN call.data
  /\ result.incident.status = "open"

\* C10: get_incidents returns every incident once, ordered by detected_at
\* descending; the seeded store lists 1000, 999, 998; the first add_incident({})
\* returns id 1001 with status open, and a store with that one created incident
\* lists it first.
C10_ListedNewestFirst ==
  LET listed == get_incidents(incidents)
  IN /\ Len(listed) = Len(incidents)
     /\ \A i \in DOMAIN incidents : \E j \in DOMAIN listed : listed[j] = incidents[i]
     /\ \A i, j \in DOMAIN listed :
          i < j => listed[i].detected_at >= listed[j].detected_at
     /\ incidents = SeedIncidents => [i \in DOMAIN listed |-> listed[i].id] = <<1000, 999, 998>>
     /\ Len(incidents) = Len(SeedIncidents) + 1 => listed[1].id = 1001
     /\ (call.op = "add_incident" /\ DOMAIN call.data = {}
         /\ Len(incidents) = Len(SeedIncidents) + 1)
        => (result.incident.id = 1001 /\ result.incident.status = "open")
     /\ call.op = "get_incidents" => result.incidents = listed

\* the list was read after the first add_incident({})
C10_Witness ==
  /\ call.op = "get_incidents"
  /\ Len(incidents) = Len(SeedIncidents) + 1
  /\ incidents[Len(incidents)].title = "Unclassified incident"
  /\ incidents[Len(incidents)].category \in Range(CATEGORIES)
  /\ incidents[Len(incidents)].location = "Unknown"
  /\ result.incidents[1].id = 1001

\* C13: however often the sensors are ticked, with every jitter in
\* [-0.1, 0.1], the payloads stay inside their clamps: anomaly_score in
\* [0, 1], ph in [6.5, 8.5], chlorine_ppm >= 0, vehicle_count >= 0 and
\* avg_speed_kmh >= 0.
C13_PayloadsStayClamped ==
  \A i \in DOMAIN sensors :
    LET payload == sensors[i].payload IN
      /\ sensors[i].type = "Public Safety" =>
            payload.anomaly_score >= 0 /\ payload.anomaly_score <= 100
      /\ sensors[i].type = "Utilities" =>
            /\ payload.ph >= 650 /\ payload.ph <= 850
            /\ payload.chlorine_ppm >= 0
      /\ sensors[i].type = "Traffic" =>
            payload.vehicle_count >= 0 /\ payload.avg_speed_kmh >= 0

\* four ticks that each raise the anomaly score by 0.05 from 0.81: the fourth
\* is cut back to 1 by the clamp
C13_Witness ==
  /\ call.op = "mutate_sensor_payloads"
  /\ call.jitters[3] = 100
  /\ calls = 4
  /\ sensors[3].payload.anomaly_score = 100
  /\ sensors[3].last_update = clock

\* C14: the seeded Traffic sensor has status "alert" before any tick.
C14_SeededTrafficIsAlert ==
  \A i \in DOMAIN sensors :
    (sensors[i].type = "Traffic" /\ sensors[i].last_update < StartTime) =>
      sensors[i].status = "alert"

\* the status the tick rules derive from a payload
StatusRule(sensor) ==
  CASE sensor.type = "Traffic" ->
         IF sensor.payload.avg_speed_kmh < 100 THEN "alert" ELSE "warning"
    [] sensor.type = "Utilities" ->
         IF sensor.payload.chlorine_ppm > 150 THEN "warning" ELSE "healthy"
    [] sensor.type = "Public Safety" ->
         IF sensor.payload.anomaly_score > 70 THEN "alert" ELSE "healthy"

\* C19: after a tick every sensor's status is the one derived from its new
\* payload; the tick changes nothing but payload, status and last_update: the
\* sensors, their order, ids, types and locations stay, and so do the incidents.
C19_TickDerivesStatus ==
  [][IsCall("mutate_sensor_payloads") =>
       /\ DOMAIN sensors' = DOMAIN sensors
       /\ \A i \in DOMAIN sensors :
            /\ sensors'[i].status = StatusRule(sensors'[i])
            /\ sensors'[i].id = sensors[i].id
            /\ sensors'[i].type = sensors[i].type
            /\ sensors'[i].location = sensors[i].location
            /\ DOMAIN sensors'[i] = DOMAIN sensors[i]
       /\ incidents' = incidents
       /\ incident_id_sequence' = incident_id_sequence]_vars

\* ticks after which the traffic has sped up past 10 km/h and the anomaly
\* score has fallen to 0.7 or below: both statuses have changed
C19_Witness ==
  /\ call.op = "mutate_sensor_payloads"
  /\ sensors[1].payload.avg_speed_kmh >= 100
  /\ sensors[1].status = "warning"
  /\ sensors[3].payload.anomaly_score <= 70
  /\ sensors[3].status = "healthy"

\* C16: calculate_metrics reports total_incidents equal to the length of the
\* list it was given and a status_breakdown with exactly the three statuses as
\* keys whose counts add up to that total; for the empty list the total and
\* the three counts are 0, both averages are null and the timeline is empty.
C16_MetricsTotals ==
  call.op = "calculate_metrics" =>
    LET metrics == result.metrics IN
      /\ metrics.total_incidents = Len(call.incidents)
      /\ DOMAIN metrics.status_breakdown = {"open", "acknowledged", "resolved"}
      /\ metrics.status_breakdown["open"] + metrics.status_breakdown["acknowledged"]
           + metrics.status_breakdown["resolved"] = metrics.total_incidents
      /\ call.incidents = <<>> =>
            /\ metrics.total_incidents = 0
            /\ \A status \in DOMAIN metrics.status_breakdown :
                 metrics.status_breakdown[status] = 0
            /\ metrics.avg_ack_minutes = None
            /\ metrics.avg_resolution_minutes = None
            /\ metrics.incidents_timeline = <<>>

\* metrics over the two newest incidents after one was added: a status that
\* does not occur in the list is reported with count 0
C16_Witness ==
  /\ call.op = "calculate_metrics"
  /\ Len(call.incidents) = 2
  /\ call.incidents[1].id = FirstId
  /\ result.metrics.total_incidents = 2
  /\ result.metrics.status_breakdown["open"] = 2
  /\ result.metrics.status_breakdown["resolved"] = 0

\* the ids of a list of incidents
IdsOf(incs) == {incs[i].id : i \in DOMAIN incs}

\* C11: incidents are never deleted.  The number of incidents changes only
\* in add_incident, and then by exactly one; update_incident_status,
\* get_incident, get_incidents, a sensor tick, get_sensors and
\* calculate_metrics leave the number and the set of ids as they were.
C11_IncidentsNeverDeleted ==
  [][/\ IdsOf(incidents) \subseteq IdsOf(incidents')
     /\ Len(incidents') >= Len(incidents)
     /\ IsCall("add_incident") => Len(incidents') = Len(incidents) + 1
     /\ ~IsCall("add_incident") =>
          /\ Len(incidents') = Len(incidents)
          /\ IdsOf(incidents') = IdsOf(incidents)
          /\ \A i \in DOMAIN incidents : incidents'[i].id = incidents[i].id]_vars

\* an incident was added, and a later update of a seeded incident left four
C11_Witness ==
  /\ call.op = "update_incident_status"
  /\ result.kind = "incident"
  /\ result.incident.id < FirstId
  /\ Len(incidents) = 4
  /\ IdsOf(incidents) = 998 .. FirstId

\* C15: what get_incidents, get_incident, get_sensors, add_incident and
\* update_incident_status return is independent of the store, nested payloads
\* included: a caller writing to a returned value changes neither the stored
\* incidents nor the stored sensors.
C15_ReturnedValuesAreCopies ==
  [][IsCall("caller_mutates") =>
       /\ aliases = {}
       /\ incidents' = incidents
       /\ sensors' = sensors
       /\ get_incidents(incidents') = get_incidents(incidents)
       /\ get_sensors(sensors') = get_sensors(sensors)]_vars

\* the caller has overwritten the sensor list it got from get_sensors
C15_Witness ==
  /\ call.op = "caller_mutates"
  /\ call.from = "get_sensors"
  /\ call.held = "sensors"
  /\ sensors[1].payload.vehicle_count > 0
  /\ sensors[1].last_update = clock

\* the highest of the scores of one cycle
MaxScore(scores) == CHOOSE m \in Range(scores) : \A other \in Range(scores) : other <= m

\* C12: one simulation cycle creates at most one incident, and exactly one
\* if and only if the highest sensor score is at least 0.5; when every score
\* is below 0.5 the incidents are left as they were and the created incident
\* is reported as none.
C12_AtMostOneIncidentPerCycle ==
  [][IsCall("simulate_event") =>
       LET top == MaxScore(call'.scores) IN
         /\ Len(incidents') <= Len(incidents) + 1
         /\ top >= 50 <=> Len(incidents') = Len(incidents) + 1
         /\ top >= 50 =>
              /\ SubSeq(incidents', 1, Len(incidents)) = incidents
              /\ result'.body.created_incident # NoneResult
              /\ result'.body.created_incident.id = incidents'[Len(incidents')].id
         /\ top < 50 =>
              /\ incidents' = incidents
              /\ incident_id_sequence' = incident_id_sequence
              /\ result'.body.created_incident = NoneResult]_vars

\* a cycle whose highest score is exactly 0.5 has created the fourth incident
C12_Witness ==
  /\ call.op = "simulate_event"
  /\ MaxScore(call.scores) = 50
  /\ Len(incidents) = 4
  /\ result.body.created_incident # NoneResult
  /\ result.body.created_incident.id = FirstId

\* position of the sensor with that id in the sensor list
SensorIndex(sensor_id) == CHOOSE i \in DOMAIN sensors : sensors[i].id = sensor_id

\* C20: the sensor_scores of a simulation cycle hold every sensor exactly
\* once, sorted by score from high to low, sensors of equal score in the order
\* of the sensor list; the incident, if one is created, is drafted from the
\* first sensor in list order that has the highest score.
C20_RankedScores ==
  call.op = "simulate_event" =>
    LET ranked == result.body.sensor_scores
        first == CHOOSE i \in DOMAIN sensors :
                   /\ call.scores[i] = MaxScore(call.scores)
                   /\ \A j \in DOMAIN sensors :
                        call.scores[j] = MaxScore(call.scores) => i <= j
    IN
      /\ Len(ranked) = Len(sensors)
      /\ \A i \in DOMAIN sensors :
           Cardinality({p \in DOMAIN ranked : ranked[p].sensor_id = sensors[i].id}) = 1
      /\ \A p \in DOMAIN ranked :
           ranked[p].score = call.scores[SensorIndex(ranked[p].sensor_id)]
      /\ \A p, q \in DOMAIN ranked :
           p < q =>
             /\ ranked[p].score >= ranked[q].score
             /\ ranked[p].score = ranked[q].score =>
                  SensorIndex(ranked[p].sensor_id) < SensorIndex(ranked[q].sensor_id)
      /\ result.body.created_incident # NoneResult =>
           /\ ranked[1].sensor_id = sensors[first].id
           /\ result.body.created_incident.title = sensors[first].id
           /\ result.body.created_incident.location = sensors[first].location
           /\ result.body.created_incident.category = sensors[first].type

\* the last two sensors share the highest score: the second sensor is ranked
\* before the third and the incident is drafted from it
C20_Witness ==
  /\ call.op = "simulate_event"
  /\ call.scores[2] = call.scores[3]
  /\ call.scores[1] < call.scores[2]
  /\ result.body.sensor_scores[1].sensor_id = sensors[2].id
  /\ result.body.sensor_scores[2].sensor_id = sensors[3].id
  /\ result.body.created_incident # NoneResult
  /\ result.body.created_incident.location = sensors[2].location

\* C17: while the session holds no user, a request to a protected endpoint
\* (/, /api/incidents, /api/incidents/<id>, /api/sensors, /api/dashboard,
\* /api/simulate) neither reads nor writes the store: no handler runs, the
\* answer is 401 for a client that accepts only JSON and a redirect to the
\* login page otherwise.
C17_ProtectedEndpointsNeedUser ==
  [][("user" \notin DOMAIN session /\ calls' # calls
        /\ call'.op \in ProtectedEndpoints \cup {"login_required"}) =>
       /\ call'.op = "login_required"
       /\ call'.endpoint \in ProtectedEndpoints
       /\ result'.store_calls = <<>>
       /\ IF call'.accept = "json"
          THEN result'.code = 401
          ELSE result'.code = 302 /\ result'.body = LoginUrl
       /\ incidents' = incidents
       /\ incident_id_sequence' = incident_id_sequence
       /\ sensors' = sensors
       /\ session' = session]_vars

\* with no user in the session, a JSON request to the simulation endpoint
\* was turned away and the store is as it was seeded
C17_Witness ==
  /\ call.op = "login_required"
  /\ call.endpoint = "simulate_event"
  /\ call.accept = "json"
  /\ result.code = 401
  /\ "user" \notin DOMAIN session
  /\ incidents = SeedIncidents
  /\ sensors = SeedSensors

\* the user of a session, NoneResult when it has none
UserOf(sess) == IF "user" \in DOMAIN sess THEN sess["user"] ELSE NoneResult

\* C18: the GitHub callback sets the session user only when the state it
\* receives equals the state stored in the session.  When the state check is
\* reached with a missing or different state, auth_error is set, the user is
\* left as it was and the answer is a redirect to the login page.  Once the
\* check is reached the stored state is gone from the session, so the same
\* callback sent again after a successful login is rejected.
C18_CallbackChecksState ==
  [][IsCall("github_callback") =>
       LET stored == SessionGet(session, "github_oauth_state", "")
           received == call'.state
           reached == call'.configured /\ ~call'.error
       IN
         /\ UserOf(session') # UserOf(session) =>
              reached /\ received # "" /\ received = stored
         /\ (reached /\ (received = "" \/ stored = "" \/ received # stored)) =>
              /\ "auth_error" \in DOMAIN session'
              /\ session'["auth_error"] = AuthErrorInvalidState
              /\ UserOf(session') = UserOf(session)
              /\ result' = Response(302, LoginUrl, <<>>)
         /\ reached => "github_oauth_state" \notin DOMAIN session'
         /\ (reached /\ UserOf(session) = GithubUser /\ stored = "") =>
              /\ UserOf(session') = GithubUser
              /\ result' = Response(302, LoginUrl, <<>>)]_vars

\* a callback carrying a state was turned away while the session holds a user
\* logged in through GitHub: the state was used up by that login
C18_Witness ==
  /\ call.op = "github_callback"
  /\ call.configured /\ ~call.error
  /\ call.state = "token-a"
  /\ call.code /\ call.outcome = "ok"
  /\ UserOf(session) = GithubUser
  /\ "auth_error" \in DOMAIN session
  /\ session["auth_error"] = AuthErrorInvalidState
  /\ "github_oauth_state" \notin DOMAIN session
  /\ result = Response(302, LoginUrl, <<>>)

\* C21: for every list of incidents, the incidents_timeline of
\* calculate_metrics has one entry for each hour in which an incident of the
\* list was detected and no other, the hours strictly ascending, every count
\* at least 1, and the counts add up to total_incidents.
C21_TimelineBuckets ==
  call.op = "calculate_metrics" =>
    LET timeline == result.metrics.incidents_timeline
        hours == {call.incidents[i].detected_at \div 60 : i \in DOMAIN call.incidents}
    IN
      /\ Len(timeline) = Cardinality(hours)
      /\ {timeline[n][1] : n \in DOMAIN timeline} = hours
      /\ \A n, m \in DOMAIN timeline : n < m => timeline[n][1] < timeline[m][1]
      /\ \A n \in DOMAIN timeline :
           /\ timeline[n][2] >= 1
           /\ timeline[n][2] =
                Cardinality({i \in DOMAIN call.incidents :
                               call.incidents[i].detected_at \div 60 = timeline[n][1]})
      /\ SumSeq([n \in DOMAIN timeline |-> timeline[n][2]])
           = result.metrics.total_incidents

\* metrics over the whole store after two incidents were added in the same
\* hour: four hours, the last of them with count 2
C21_Witness ==
  /\ call.op = "calculate_metrics"
  /\ Len(call.incidents) = 5
  /\ Len(result.metrics.incidents_timeline) = 4
  /\ result.metrics.incidents_timeline[4][2] = 2
  /\ result.metrics.incidents_timeline[1][2] = 1

\* C22: update_incident_status(id, s) with a valid status changes at most
\* the status, acknowledged_at and resolved_at of the incident with that id:
\* its other fields and the other incidents stay as they were.  No operation
\* ever changes the detected_at of an incident.
C22_UpdateFrame ==
  [][/\ (IsCall("update_incident_status") /\ call'.status \in Range(STATUSES)) =>
          /\ DOMAIN incidents' = DOMAIN incidents
          /\ \A i \in DOMAIN incidents :
               IF incidents[i].id = call'.incident_id
               THEN /\ DOMAIN incidents'[i] = DOMAIN incidents[i]
                    /\ \A field \in DOMAIN incidents[i]
                                    \ {"status", "acknowledged_at", "resolved_at"} :
                         incidents'[i][field] = incidents[i][field]
               ELSE incidents'[i] = incidents[i]
     /\ \A i \in DOMAIN incidents :
          /\ i \in DOMAIN incidents'
          /\ incidents'[i].id = incidents[i].id
          /\ incidents'[i].detected_at = incidents[i].detected_at]_vars

\* the seeded open incident was resolved: its status and both timestamps are
\* new, its detection time is the seeded one
C22_Witness ==
  /\ call.op = "update_incident_status"
  /\ call.incident_id = 1000
  /\ result.kind = "incident"
  /\ \E i \in DOMAIN incidents :
       /\ incidents[i].id = 1000
       /\ incidents[i].status = "resolved"
       /\ incidents[i].acknowledged_at = clock
       /\ incidents[i].resolved_at = clock
       /\ incidents[i].detected_at = StartTime - 45

\* C23: in every state reached by add_incident and update_incident_status
\* calls made one after the other, a resolved incident has a resolved_at, an
\* acknowledged or resolved incident has an acknowledged_at, and, the clock
\* never going back, detected_at <= acknowledged_at wherever acknowledged_at
\* is set; so no acknowledgement or resolution latency that calculate_metrics
\* works with is negative.
C23_TimestampsConsistent ==
  /\ \A i \in DOMAIN incidents :
       LET incident == incidents[i] IN
         /\ incident.status = "resolved" => incident.resolved_at # None
         /\ incident.status \in {"acknowledged", "resolved"} =>
              incident.acknowledged_at # None
         /\ incident.acknowledged_at # None =>
              incident.detected_at <= incident.acknowledged_at
         /\ (incident.resolved_at # None /\ incident.acknowledged_at # None) =>
              incident.acknowledged_at <= incident.resolved_at
         /\ (incident.resolved_at # None /\ incident.acknowledged_at = None) =>
              incident.detected_at <= incident.resolved_at
  /\ \A n \in DOMAIN acknowledgement_times(incidents) :
       acknowledgement_times(incidents)[n] >= 0
  /\ \A n \in DOMAIN resolution_times(incidents) :
       resolution_times(incidents)[n] >= 0
  /\ call.op = "calculate_metrics" =>
       /\ result.metrics.avg_ack_minutes = None \/ result.metrics.avg_ack_minutes >= 0
       /\ result.metrics.avg_resolution_minutes = None
            \/ result.metrics.avg_resolution_minutes >= 0

\* metrics over a store whose added incident was acknowledged a minute after
\* its detection
C23_Witness ==
  /\ call.op = "calculate_metrics"
  /\ Len(call.incidents) = 4
  /\ call.incidents[1].id = FirstId
  /\ call.incidents[1].status = "acknowledged"
  /\ call.incidents[1].detected_at < call.incidents[1].acknowledged_at
  /\ result.metrics.avg_ack_minutes > 0

\* an incident as update_incident_status leaves it when it has run to its end
Settled(incident) ==
  /\ incident.status = "resolved" => incident.resolved_at # None
  /\ incident.status \in {"acknowledged", "resolved"} => incident.acknowledged_at # None

\* C24: every store operation runs to its end before another request sees
\* the store: with request handlers interleaved statement by statement, no
\* get_incident or get_incidents call returns an incident that an
\* update_incident_status is in the middle of, such as one with status
\* resolved and no resolved_at, or status acknowledged and no acknowledged_at.
C24_NoReadInsideUpdate ==
  /\ (call.op = "get_incident" /\ result.kind = "incident") => Settled(result.incident)
  /\ call.op = "get_incidents" =>
       \A n \in DOMAIN result.incidents : Settled(result.incidents[n])

====
